---- MODULE Spec2Model ----
(***************************************************************************)
(* A model of app/src/models/fractional-index.ts and                       *)
(* app/src/models/nutty-id.ts.                                             *)
(*                                                                         *)
(* A JavaScript string is a sequence of UTF-16 code units.  For the        *)
(* fractional index, whose code works on code units (charCodeAt,           *)
(* fromCharCode), a string is a sequence of numbers in 0..65535.  For the  *)
(* identifier codec, whose code works on characters of an alphabet         *)
(* (indexOf, includes), a string is a sequence of one-character strings.   *)
(* An Either / ParseResult is a record with a tag and its payload.         *)
(***************************************************************************)
EXTENDS Integers, Sequences, FiniteSets, TLC

VARIABLES
    siblings,   \* sibling group: block number -> order key
    outcome,    \* the last reorder operation on the group and its result
    a, b, c,    \* FractionalIndex operands of the pure operations
    result,     \* what the last pure FractionalIndex operation returned
    input,      \* the raw string handed to FractionalIndex.fromString
    parsed,     \* what fromString returned for it
    indexDecoded, \* what FractionalIndexFromString returned decoding it
    value,      \* the bigint handed to encodeBase58
    padWidth,   \* the width handed to encodeBase58
    encoded,    \* what encodeBase58 returned
    decoded,    \* what decodeBase58 returned for the encoded string
    uuid,       \* a UniqueId, as its UUID string
    nuttyId,    \* what NuttyId.fromUuid returned for it
    wire,       \* a wire string on its way to the decoder
    wireKind,   \* where the wire string came from
    received,   \* what decoding the wire string returned
    timeZone,   \* the local time zone of the environment the code runs in
    text,       \* a string handed to isValidNuttyId and to decodeBase58
    textOther,  \* a second seven-character string, to compare text with
    verdict,    \* what isValidNuttyId returned for text
    textValue,  \* what decodeBase58 returned for text
    pair,       \* two UniqueIds, as UUID strings
    pairIds,    \* what NuttyId.fromUuid returned for each of them
    pending     \* caller -> the reorder it has asked for and not yet done

groupVars == <<siblings, outcome>>
indexVars == <<a, b, c, result, input, parsed, indexDecoded>>
codecVars == <<value, padWidth, encoded, decoded>>
wireVars == <<uuid, nuttyId, wire, wireKind, received, timeZone>>
textVars == <<text, textOther, verdict, textValue>>
pairVars == <<pair, pairIds>>
vars ==
    <<groupVars, indexVars, codecVars, wireVars, textVars, pairVars, pending>>

(***************************************************************************)
(* Bounds of the model.                                                    *)
(***************************************************************************)
MaxSiblings == 8
MaxGroup == 4
MaxKeyLen == 5
MaxIndexLen == 2
MaxRawLen == 3
MaxValue == 120
MaxWidth == 4

(***************************************************************************)
(* Either values.                                                          *)
(***************************************************************************)
Right(v) == [tag |-> "Right", right |-> v]
Left(e) == [tag |-> "Left", left |-> e]
None == [tag |-> "None"]
isRight(r) == r.tag = "Right"
isLeft(r) == r.tag = "Left"

(***************************************************************************)
(* JavaScript string primitives on sequences.                              *)
(***************************************************************************)
Max(x, y) == IF x >= y THEN x ELSE y

\* s.padEnd(n, ch) for a one-character filler: never shortens.
padEnd(s, n, ch) ==
    IF n <= Len(s) THEN s ELSE s \o [i \in 1..(n - Len(s)) |-> ch]

\* String.fromCharCode(n): the code unit n modulo 2^16.
fromCharCode(n) == n % 65536

\* x < y on strings: lexicographic by code unit, a proper prefix is smaller.
RECURSIVE StrLessFrom(_, _, _)
StrLessFrom(x, y, i) ==
    IF i > Len(y) THEN FALSE
    ELSE IF i > Len(x) THEN TRUE
    ELSE IF x[i] < y[i] THEN TRUE
    ELSE IF x[i] > y[i] THEN FALSE
    ELSE StrLessFrom(x, y, i + 1)

StrLess(x, y) == StrLessFrom(x, y, 1)

\* All strings over the code units cs of length 0..n.
RECURSIVE StringsOver(_, _)
StringsOver(cs, n) ==
    IF n = 0 THEN {<<>>}
    ELSE LET shorter == StringsOver(cs, n - 1)
         IN  shorter \cup {Append(s, ch) : s \in shorter, ch \in cs}

(***************************************************************************)
(* fractional-index.ts                                                     *)
(***************************************************************************)
MIN_CHAR == 33
MAX_CHAR == 126
BASE == 94

isValidFractionalIndex(index) ==
    \A i \in 1..Len(index) : index[i] >= MIN_CHAR /\ index[i] <= MAX_CHAR

\* index.split("").find(Predicate.not(isValidFractionalIndex))
RECURSIVE findInvalidFrom(_, _)
findInvalidFrom(index, i) ==
    IF i > Len(index) THEN -1
    ELSE IF ~isValidFractionalIndex(<<index[i]>>) THEN index[i]
    ELSE findInvalidFrom(index, i + 1)

\* fromString reporting the last invalid character instead of the first.
RECURSIVE findInvalidBack(_, _)
findInvalidBack(index, i) ==
    IF i < 1 THEN -1
    ELSE IF ~isValidFractionalIndex(<<index[i]>>) THEN index[i]
    ELSE findInvalidBack(index, i - 1)

fromStringLastInvalid(index) ==
    IF ~isValidFractionalIndex(index)
    THEN Left([msg |-> "Invalid character",
               char |-> findInvalidBack(index, Len(index))])
    ELSE Right(index)

\* fromString refusing a string of more than four characters.
fromStringCapped(index) ==
    IF Len(index) > 4
    THEN Left([msg |-> "Too long", char |-> 0])
    ELSE IF ~isValidFractionalIndex(index)
    THEN Left([msg |-> "Invalid character", char |-> findInvalidFrom(index, 1)])
    ELSE Right(index)

fromString(index) ==
    IF ~isValidFractionalIndex(index)
    THEN Left([msg |-> "Invalid character", char |-> findInvalidFrom(index, 1)])
    ELSE Right(index)

\* FractionalIndexFromString, decoding: any string is a Schema.String; the
\* decode function; the FractionalIndex it made passes its own filter.
decodeFractionalIndex(str) ==
    IF ~isValidFractionalIndex(str)
    THEN Left([msg |-> "Invalid character", char |-> findInvalidFrom(str, 1)])
    ELSE Right(str)

\* FractionalIndexFromString, encoding.
encodeFractionalIndex(index) == Right(index)

\* start with the character after "!".
startSecondChar == <<fromCharCode(MIN_CHAR + 1)>>

start == <<33>>
end == <<126>>

\* The loop of between: positions i..maxLen, with the carry and the result so far.
RECURSIVE betweenLoop(_, _, _, _, _)
betweenLoop(beforePadded, afterPadded, i, carry, acc) ==
    IF i > Len(beforePadded) THEN [result |-> acc, carry |-> carry]
    ELSE LET bVal == beforePadded[i] - MIN_CHAR
             aVal == afterPadded[i] - MIN_CHAR
             sum == bVal + aVal + carry
             digit == sum \div 2
         IN  betweenLoop(beforePadded, afterPadded, i + 1, (sum % 2) * BASE,
                         Append(acc, fromCharCode(digit + MIN_CHAR)))

\* betweenString without the digit appended for a final carry.
betweenStringNoFinalCarry(beforeIndex, afterIndex) ==
    LET maxLen == Max(Len(beforeIndex), Len(afterIndex))
        beforePadded == padEnd(beforeIndex, maxLen, 33)
        afterPadded == padEnd(afterIndex, maxLen, 33)
    IN  betweenLoop(beforePadded, afterPadded, 1, 0, <<>>).result

\* finalCarry appending a digit whether or not there is a carry.
finalCarryAlways(done) ==
    Append(done.result, fromCharCode((done.carry \div 2) + MIN_CHAR))

\* The string between builds before it validates it.
\* The digit appended when the loop ends with a carry.
finalCarry(done) ==
    IF done.carry > 0
    THEN Append(done.result, fromCharCode((done.carry \div 2) + MIN_CHAR))
    ELSE done.result

\* betweenString taking the length of beforeIndex for maxLen.
betweenStringBeforeLen(beforeIndex, afterIndex) ==
    LET maxLen == Len(beforeIndex)
        beforePadded == padEnd(beforeIndex, maxLen, 33)
        afterPadded == padEnd(afterIndex, maxLen, 33)
    IN  finalCarry(betweenLoop(beforePadded, afterPadded, 1, 0, <<>>))

betweenString(beforeIndex, afterIndex) ==
    LET maxLen == Max(Len(beforeIndex), Len(afterIndex))
        beforePadded == padEnd(beforeIndex, maxLen, 33)
        afterPadded == padEnd(afterIndex, maxLen, 33)
    IN  finalCarry(betweenLoop(beforePadded, afterPadded, 1, 0, <<>>))

\* between handing back its string without validating it.
betweenUnvalidated(before, after) ==
    IF before = after
    THEN Left([msg |-> "Identical indices", before |-> before, after |-> after])
    ELSE Right(betweenString(before, after))

between(before, after) ==
    IF before = after
    THEN Left([msg |-> "Identical indices", before |-> before, after |-> after])
    ELSE fromString(betweenString(before, after))

\* compare answering -1 in both of its unequal branches.
compareSignSlip(self, other) ==
    LET maxLen == Max(Len(self), Len(other))
        selfPadded == padEnd(self, maxLen, 33)
        otherPadded == padEnd(other, maxLen, 33)
    IN  IF StrLess(selfPadded, otherPadded) THEN -1
        ELSE IF StrLess(otherPadded, selfPadded) THEN -1
        ELSE 0

\* The three-way test on the padded strings.
comparePadded(selfPadded, otherPadded) ==
    IF StrLess(selfPadded, otherPadded) THEN -1
    ELSE IF StrLess(otherPadded, selfPadded) THEN 1
    ELSE 0

\* compare without the padding.
compareUnpadded(self, other) == comparePadded(self, other)

compare(self, other) ==
    comparePadded(padEnd(self, Max(Len(self), Len(other)), 33),
                  padEnd(other, Max(Len(self), Len(other)), 33))

lessThan(self, other) == compare(self, other) < 0
greaterThan(self, other) == compare(self, other) > 0
equals(self, other) == compare(self, other) = 0


(***************************************************************************)
(* nutty-id.ts: bigint.  A bigint is its sign and its magnitude, the       *)
(* magnitude a sequence of hexadecimal digits, most significant first,     *)
(* without leading zeros (0n is the empty sequence).                       *)
(***************************************************************************)
RECURSIVE stripZeros(_)
stripZeros(ds) ==
    IF ds # <<>> /\ Head(ds) = 0 THEN stripZeros(Tail(ds)) ELSE ds

RECURSIVE natDigits(_)
natDigits(n) == IF n = 0 THEN <<>> ELSE Append(natDigits(n \div 16), n % 16)

\* The bigint of a small integer.
BigInt(n) ==
    [neg |-> n < 0, mag |-> natDigits(IF n < 0 THEN 0 - n ELSE n)]

\* mag / d and mag % d for a small divisor d, by long division.
RECURSIVE divModFrom(_, _, _, _, _)
divModFrom(mag, d, i, rem, quot) ==
    IF i > Len(mag) THEN [quot |-> stripZeros(quot), rem |-> rem]
    ELSE LET cur == rem * 16 + mag[i]
         IN  divModFrom(mag, d, i + 1, cur % d, Append(quot, cur \div d))

divMod(mag, d) == divModFrom(mag, d, 1, 0, <<>>)

\* mag * k + n for small k and n.
RECURSIVE mulAddFrom(_, _, _, _, _)
mulAddFrom(mag, k, i, carry, acc) ==
    IF i < 1 THEN natDigits(carry) \o acc
    ELSE LET cur == mag[i] * k + carry
         IN  mulAddFrom(mag, k, i - 1, cur \div 16, <<cur % 16>> \o acc)

mulAdd(mag, k, n) == mulAddFrom(mag, k, Len(mag), n, <<>>)

(***************************************************************************)
(* nutty-id.ts: the base-58 codec.                                         *)
(***************************************************************************)
BASE_58_ALPHABET == <<
    "1", "2", "3", "4", "5", "6", "7", "8", "9", "A", "B", "C", "D", "E", "F", "G",
    "H", "J", "K", "L", "M", "N", "P", "Q", "R", "S", "T", "U", "V", "W", "X", "Y",
    "Z", "a", "b", "c", "d", "e", "f", "g", "h", "i", "j", "k", "m", "n", "o", "p",
    "q", "r", "s", "t", "u", "v", "w", "x", "y", "z" >>

\* The UTF-16 code units of the characters of BASE_58_ALPHABET.
BASE_58_CODES == <<
    49, 50, 51, 52, 53, 54, 55, 56, 57, 65, 66, 67, 68, 69, 70, 71,
    72, 74, 75, 76, 77, 78, 80, 81, 82, 83, 84, 85, 86, 87, 88, 89,
    90, 97, 98, 99, 100, 101, 102, 103, 104, 105, 106, 107, 109, 110, 111, 112,
    113, 114, 115, 116, 117, 118, 119, 120, 121, 122 >>

\* BASE_58_ALPHABET.indexOf(char): the 0-based place of char, or -1.
indexOf(char) ==
    IF \E i \in 1..Len(BASE_58_ALPHABET) : BASE_58_ALPHABET[i] = char
    THEN (CHOOSE i \in 1..Len(BASE_58_ALPHABET) : BASE_58_ALPHABET[i] = char) - 1
    ELSE -1

\* str.repeat(count) for a one-character str; a negative count throws.
repeat(char, count) == [i \in 1..count |-> char]

\* The while loop of encodeBase58: the digits, least significant first.
RECURSIVE encodeDigits(_, _)
encodeDigits(remaining, digits) ==
    IF remaining = <<>> THEN digits
    ELSE LET qr == divMod(remaining, 58)
         IN  encodeDigits(qr.quot, Append(digits, qr.rem))

\* encodeBase58 writing its digits in the order the loop made them.
encodeBase58LittleEndian(v, width) ==
    IF v.neg THEN Left("Invalid input: value must be positive")
    ELSE IF v.mag = <<>>
    THEN IF width < 0 THEN [tag |-> "Throw", error |-> "RangeError"]
         ELSE Right(repeat("1", width))
    ELSE LET digits == encodeDigits(v.mag, <<>>)
             paddingLength == Max(0, width - Len(digits))
         IN  Right(repeat("1", paddingLength) \o
                   [i \in 1..Len(digits) |-> BASE_58_ALPHABET[digits[i] + 1]])

\* encodeBase58 keeping only the last width digits of a longer value.
encodeBase58Truncating(v, width) ==
    IF v.neg THEN Left("Invalid input: value must be positive")
    ELSE IF v.mag = <<>>
    THEN IF width < 0 THEN [tag |-> "Throw", error |-> "RangeError"]
         ELSE Right(repeat("1", width))
    ELSE LET digits == encodeDigits(v.mag, <<>>)
             kept == IF width > 0 /\ width < Len(digits) THEN width
                     ELSE Len(digits)
             paddingLength == Max(0, width - Len(digits))
         IN  Right(repeat("1", paddingLength) \o
                   [i \in 1..kept |-> BASE_58_ALPHABET[digits[kept + 1 - i] + 1]])

\* encodeBase58 writing the digits of a non-zero value without padding.
encodeBase58Unpadded(v, width) ==
    IF v.neg THEN Left("Invalid input: value must be positive")
    ELSE IF v.mag = <<>>
    THEN IF width < 0 THEN [tag |-> "Throw", error |-> "RangeError"]
         ELSE Right(repeat("1", width))
    ELSE LET digits == encodeDigits(v.mag, <<>>)
         IN  Right([i \in 1..Len(digits) |->
                       BASE_58_ALPHABET[digits[Len(digits) + 1 - i] + 1]])

encodeBase58(v, width) ==
    IF v.neg THEN Left("Invalid input: value must be positive")
    ELSE IF v.mag = <<>>
    THEN IF width < 0 THEN [tag |-> "Throw", error |-> "RangeError"]
         ELSE Right(repeat("1", width))
    ELSE LET digits == encodeDigits(v.mag, <<>>)
             paddingLength == Max(0, width - Len(digits))
         IN  Right(repeat("1", paddingLength) \o
                   [i \in 1..Len(digits) |->
                       BASE_58_ALPHABET[digits[Len(digits) + 1 - i] + 1]])

\* The for loop of decodeBase58 from character i on.
RECURSIVE decodeFrom(_, _, _)
decodeFrom(str, i, acc) ==
    IF i > Len(str) THEN Right([neg |-> FALSE, mag |-> acc])
    ELSE LET index == indexOf(str[i])
         IN  IF index = -1
             THEN Left([msg |-> "Invalid character in base58 string",
                        char |-> str[i]])
             ELSE decodeFrom(str, i + 1, mulAdd(acc, 58, index))

\* decodeBase58 without its test for the empty string.
decodeBase58EmptyZero(str) == decodeFrom(str, 1, <<>>)

decodeBase58(str) ==
    IF Len(str) = 0 THEN Left([msg |-> "Invalid input: empty string"])
    ELSE decodeFrom(str, 1, <<>>)

(***************************************************************************)
(* nutty-id.ts: the identifier.  A UUID is its 36-character string.        *)
(***************************************************************************)
HEX_DIGITS == <<
    "0", "1", "2", "3", "4", "5", "6", "7", "8", "9", "a", "b", "c", "d", "e", "f" >>

hexChar(d) == HEX_DIGITS[d + 1]
hexValue(char) == (CHOOSE i \in 1..16 : HEX_DIGITS[i] = char) - 1
isHexChar(char) == \E i \in 1..16 : HEX_DIGITS[i] = char

Min(x, y) == IF x <= y THEN x ELSE y

\* s.slice(from, to) for 0 <= from, and s.slice(-n).
slice(s, from, to) == SubSeq(s, from + 1, Min(to, Len(s)))
sliceLast(s, n) == SubSeq(s, Max(1, Len(s) - n + 1), Len(s))

\* s.padStart(n, ch) for a one-character filler: never shortens.
padStart(s, n, ch) == [i \in 1..Max(0, n - Len(s)) |-> ch] \o s

\* uuid.replace(/-/g, "")
removeHyphens(str) == SelectSeq(str, LAMBDA ch : ch # "-")

\* str.split(sep) for a one-character separator.
RECURSIVE splitFrom(_, _, _, _)
splitFrom(str, sep, i, cur) ==
    IF i > Len(str) THEN <<cur>>
    ELSE IF str[i] = sep THEN <<cur>> \o splitFrom(str, sep, i + 1, <<>>)
    ELSE splitFrom(str, sep, i + 1, Append(cur, str[i]))

split(str, sep) == splitFrom(str, sep, 1, <<>>)

\* BigInt("0x" + hex)
parseHex(hex) ==
    [neg |-> FALSE, mag |-> stripZeros([i \in 1..Len(hex) |-> hexValue(hex[i])])]

\* v.toString(16) for v >= 0
toHexString(v) ==
    IF v.mag = <<>> THEN <<"0">> ELSE [i \in 1..Len(v.mag) |-> hexChar(v.mag[i])]

\* v & ((1n << 41n) - 1n) for v >= 0: ten hexadecimal digits and one bit more.
\* The mask keeping the whole eleventh hexadecimal digit: 44 bits.
mask44(v) ==
    LET n == Len(v.mag)
    IN  [neg |-> FALSE,
         mag |-> IF n <= 11 THEN v.mag ELSE stripZeros(SubSeq(v.mag, n - 10, n))]

mask41(v) ==
    LET n == Len(v.mag)
    IN  [neg |-> FALSE,
         mag |-> IF n <= 10 THEN v.mag
                 ELSE stripZeros(<<v.mag[n - 10] % 2>> \o SubSeq(v.mag, n - 9, n))]

\* extractLast41Bits without the mask: the last 48 bits.
extractLast48Bits(id) ==
    LET hex == removeHyphens(id)
        lastBytes == sliceLast(hex, 12)
    IN  parseHex(lastBytes)

extractLast41Bits(id) ==
    LET hex == removeHyphens(id)
        lastBytes == sliceLast(hex, 12)
    IN  mask41(parseHex(lastBytes))

\* extractTimestamp reading 8 hexadecimal characters, not 12.
extractTimestamp32(id) ==
    LET hex == removeHyphens(id)
        timestampHex == slice(hex, 0, 8)
    IN  parseHex(timestampHex).mag

\* The epoch milliseconds, a number below 2^48, kept as a magnitude.
extractTimestamp(id) ==
    LET hex == removeHyphens(id)
        timestampHex == slice(hex, 0, 12)
    IN  parseHex(timestampHex).mag

\* The UTF-16 code units of a string over BASE_58_ALPHABET.
codeUnits(str) == [i \in 1..Len(str) |-> BASE_58_CODES[indexOf(str[i]) + 1]]

MAX_NID == <<"z", "m", "M", "9", "z", "4", "E">>

\* isValidNuttyId with < in place of <=.
isValidNuttyIdStrict(id) ==
    IF Len(id) # 7 THEN FALSE
    ELSE IF ~(\A i \in 1..Len(id) : indexOf(id[i]) # -1) THEN FALSE
    ELSE StrLess(codeUnits(id), codeUnits(MAX_NID))

\* isValidNuttyId without the comparison with "zmM9z4E".
isValidNuttyIdAnyValue(id) ==
    IF Len(id) # 7 THEN FALSE
    ELSE \A i \in 1..Len(id) : indexOf(id[i]) # -1

isValidNuttyId(id) ==
    IF Len(id) # 7 THEN FALSE
    ELSE IF ~(\A i \in 1..Len(id) : indexOf(id[i]) # -1) THEN FALSE
    ELSE ~StrLess(codeUnits(MAX_NID), codeUnits(id))

\* effect's UUID schema: 8-4-4-4-12 hexadecimal characters.
isUUID(str) ==
    /\ Len(str) = 36
    /\ \A i \in 1..36 :
           IF i \in {9, 14, 19, 24} THEN str[i] = "-" ELSE isHexChar(str[i])

\* The pattern of StringifiedNuttyId.
isStringifiedNuttyId(str) ==
    /\ Len(str) = 30
    /\ \A i \in 1..30 :
           IF i = 23 THEN str[i] = ":" ELSE indexOf(str[i]) # -1

\* Temporal.Instant.fromEpochMilliseconds(ms).toZonedDateTimeISO(zone)
\* with zone = Temporal.Now.timeZoneId()
zonedDateTime(ms) == [epochMilliseconds |-> ms, timeZoneId |-> timeZone]

\* new NuttyId({uuid, nid, timestamp}): the constructor validates its fields.
newNuttyId(id, nid, timestamp) ==
    IF isUUID(id) /\ isValidNuttyId(nid)
    THEN Right([uuid |-> id, nid |-> nid, timestamp |-> timestamp])
    ELSE [tag |-> "Throw", error |-> "ParseError"]

fromUuid(id) ==
    LET last41Bits == extractLast41Bits(id)
        encodedNid == encodeBase58(last41Bits, 7)
    IN  IF ~isRight(encodedNid) THEN encodedNid
        ELSE newNuttyId(id, encodedNid.right,
                        zonedDateTime(extractTimestamp(id)))

\* NuttyId.now for the UUID that uuidv7() made.
now(generated) ==
    LET made == fromUuid(generated)
    IN  IF isLeft(made)
        THEN [tag |-> "Throw",
              error |-> "Assertion: NuttyId.fromUuid failed with valid UUID"]
        ELSE made

\* The five slices of 32 hexadecimal characters joined by "-".
joinSlices(uuidHex) ==
    slice(uuidHex, 0, 8) \o <<"-">> \o slice(uuidHex, 8, 12) \o <<"-">>
        \o slice(uuidHex, 12, 16) \o <<"-">> \o slice(uuidHex, 16, 20)
        \o <<"-">> \o slice(uuidHex, 20, 32)

\* uuidFromBigInt without padStart.
uuidFromBigIntUnpadded(v) == joinSlices(toHexString(v))

\* "Convert the bigint back to UUID format."
uuidFromBigInt(v) == joinSlices(padStart(toHexString(v), 32, "0"))

\* NuttyIdFromString, decoding: the pattern of the wire string, the decode
\* function, then the fields of NuttyId.
decodeNuttyId(str) ==
    IF ~isStringifiedNuttyId(str) THEN Left([msg |-> "Pattern mismatch"])
    ELSE
    LET parts == split(str, ":")
        uuidBase58 == parts[1]
        nid == parts[2]
        uuidResult == decodeBase58(uuidBase58)
    IN  IF isLeft(uuidResult) THEN Left([msg |-> "Invalid UUID encoding"])
        ELSE
        LET id == uuidFromBigInt(uuidResult.right)
            calculatedNid == encodeBase58(extractLast41Bits(id), 7)
        IN  IF ~isUUID(id) THEN [tag |-> "Throw", error |-> "ParseError"]
            ELSE IF ~isRight(calculatedNid)
            THEN Left([msg |-> "Failed to encode NID"])
            ELSE IF calculatedNid.right # nid THEN Left([msg |-> "NID mismatch"])
            ELSE IF ~isValidNuttyId(nid)
            THEN Left([msg |-> "Invalid Nutty ID format"])
            ELSE Right([uuid |-> id, nid |-> nid,
                        timestamp |-> zonedDateTime(extractTimestamp(id))])

\* encodeNuttyId padding to 21 characters and not branding its result.
encodeNuttyIdNarrow(nutty) ==
    LET uuidHex == removeHyphens(nutty.uuid)
        uuidBigInt == parseHex(uuidHex)
        uuidBase58 == encodeBase58(uuidBigInt, 21)
    IN  IF ~isRight(uuidBase58)
        THEN Left([msg |-> "Failed to base-58 encode UUID"])
        ELSE Right(uuidBase58.right \o <<":">> \o nutty.nid)

\* NuttyIdFromString, encoding.
encodeNuttyId(nutty) ==
    LET uuidHex == removeHyphens(nutty.uuid)
        uuidBigInt == parseHex(uuidHex)
        uuidBase58 == encodeBase58(uuidBigInt, 22)
    IN  IF ~isRight(uuidBase58)
        THEN Left([msg |-> "Failed to base-58 encode UUID"])
        ELSE LET str == uuidBase58.right \o <<":">> \o nutty.nid
             IN  IF isStringifiedNuttyId(str) THEN Right(str)
                 ELSE [tag |-> "Throw", error |-> "ParseError"]

(***************************************************************************)
(* The sibling group.  A content block carries its order key in fIndex; a  *)
(* group of siblings is ordered by compare.  A block is inserted, or an    *)
(* existing block moved, by giving it the key between makes of the two     *)
(* neighbours of the gap it goes to.                                       *)
(***************************************************************************)
Blocks == DOMAIN siblings

\* k sorts strictly between l and r.
sortsBetween(l, k, r) == lessThan(l, k) /\ lessThan(k, r)

\* The keys of blocks i and j are neighbours once block blk is set aside
\* (blk = 0 sets none aside): i sorts first and no other key sorts between.
Adjacent(i, j, blk) ==
    /\ lessThan(siblings[i], siblings[j])
    /\ \A k \in Blocks \ {i, j, blk} :
           ~sortsBetween(siblings[i], siblings[k], siblings[j])

IdleGroup ==
    /\ siblings = <<start, end>>
    /\ outcome = None

IdleIndex ==
    /\ a = <<>> /\ b = <<>> /\ c = <<>>
    /\ result = None
    /\ input = <<>>
    /\ parsed = None
    /\ indexDecoded = None

IdleCodec ==
    /\ value = [neg |-> FALSE, mag |-> <<>>]
    /\ padWidth = 0
    /\ encoded = None
    /\ decoded = None

IdleWire ==
    /\ uuid = <<>>
    /\ nuttyId = None
    /\ wire = <<>>
    /\ wireKind = "none"
    /\ received = None
    /\ timeZone = "UTC"

IdleText ==
    /\ text = <<>>
    /\ textOther = <<>>
    /\ verdict = None
    /\ textValue = None

IdlePair ==
    /\ pair = <<>>
    /\ pairIds = None
    /\ pending = <<>>

Init ==
    /\ siblings = <<start, end>>
    /\ outcome = None
    /\ IdleIndex
    /\ IdleCodec
    /\ IdleWire
    /\ IdleText
    /\ IdlePair

\* A new block goes into the gap between the neighbours i and j.
Insert(i, j) ==
    /\ Adjacent(i, j, 0)
    /\ outcome' = [op |-> "insert",
                   result |-> between(siblings[i], siblings[j])]
    /\ siblings' = IF isRight(outcome'.result)
                   THEN Append(siblings, outcome'.result.right)
                   ELSE siblings
    /\ UNCHANGED <<pending, pairVars, textVars, indexVars, codecVars, wireVars>>

\* Block blk moves into the gap between i and j, neighbours without it.
Move(blk, i, j) ==
    /\ blk \notin {i, j}
    /\ Adjacent(i, j, blk)
    /\ outcome' = [op |-> "move",
                   result |-> between(siblings[i], siblings[j])]
    /\ siblings' = IF isRight(outcome'.result)
                   THEN [siblings EXCEPT ![blk] = outcome'.result.right]
                   ELSE siblings
    /\ UNCHANGED <<pending, pairVars, textVars, indexVars, codecVars, wireVars>>

\* The keys of i and j leave room for one more character.
KeyRoom(i, j) == Len(siblings[i]) < MaxKeyLen /\ Len(siblings[j]) < MaxKeyLen

\* The gap is named by its two neighbours in key order.
Next ==
    \E i \in Blocks, j \in Blocks :
        /\ KeyRoom(i, j)
        /\ lessThan(siblings[i], siblings[j])
        /\ \/ Len(siblings) < MaxGroup /\ Insert(i, j)
           \/ \E blk \in Blocks : Move(blk, i, j)

Spec == Init /\ [][Next]_vars

\* The group under insertions alone.
NextInsert ==
    \E i \in Blocks, j \in Blocks : Len(siblings) < MaxSiblings /\ Insert(i, j)

SpecInsert == Init /\ [][NextInsert]_vars

(***************************************************************************)
(* Callers of the reorder operation.  A caller asks for a block to go      *)
(* right after an anchor block, as it saw the group; the persistence layer *)
(* runs the operations one at a time, each reading the anchor's key and    *)
(* the key of the anchor's neighbour of that moment, calling between and   *)
(* writing the block's key in one step.                                    *)
(***************************************************************************)
Callers == {"A", "B"}

SerialGroup == MaxGroup - 1
SerialKeyLen == MaxKeyLen - 1

InitSerial ==
    /\ siblings = <<start, end>>
    /\ outcome = None
    /\ IdleIndex
    /\ IdleCodec
    /\ IdleWire
    /\ IdleText
    /\ pair = <<>>
    /\ pairIds = None
    /\ pending = [caller \in Callers |-> None]

\* The caller sees the gap after the anchor, next to the block before: it
\* asks for block blk (0: a new block) to go there.
Plan(caller, blk, after, before) ==
    /\ pending[caller] = None
    /\ blk \notin {after, before}
    /\ Adjacent(after, before, blk)
    /\ pending' = [pending EXCEPT ![caller] =
                       [blk |-> blk, after |-> after, before |-> before]]
    /\ UNCHANGED <<groupVars, indexVars, codecVars, wireVars, textVars, pairVars>>

\* The anchor's right neighbour as the caller saw it.
rightNeighbourAsPlanned(req) == req.before

\* The anchor's right neighbour now, the block to write set aside; 0 if the
\* anchor is last.
rightNeighbour(req) ==
    IF \E k \in Blocks \ {req.blk, req.after} : Adjacent(req.after, k, req.blk)
    THEN CHOOSE k \in Blocks \ {req.blk, req.after} :
             Adjacent(req.after, k, req.blk)
    ELSE 0

\* One serialized operation: read, between, write.
Execute(caller) ==
    /\ pending[caller] # None
    /\ pending' = [pending EXCEPT ![caller] = None]
    /\ LET req == pending[caller]
           right == rightNeighbour(req)
       IN  IF \/ right = 0
              \/ req.blk = 0 /\ Len(siblings) >= SerialGroup
              \/ Len(siblings[req.after]) >= SerialKeyLen
              \/ Len(siblings[right]) >= SerialKeyLen
           THEN outcome' = [op |-> "refused", result |-> None]
                /\ siblings' = siblings
           ELSE /\ outcome' = [op |-> IF req.blk = 0 THEN "insert" ELSE "move",
                               result |-> between(siblings[req.after],
                                                  siblings[right])]
                /\ siblings' =
                       IF ~isRight(outcome'.result) THEN siblings
                       ELSE IF req.blk = 0
                       THEN Append(siblings, outcome'.result.right)
                       ELSE [siblings EXCEPT ![req.blk] = outcome'.result.right]
    /\ UNCHANGED <<indexVars, codecVars, wireVars, textVars, pairVars>>

NextSerial ==
    \/ \E caller \in Callers, blk \in Blocks \cup {0}, after \in Blocks,
          before \in Blocks : Plan(caller, blk, after, before)
    \/ \E caller \in Callers : Execute(caller)

SpecSerial == InitSerial /\ [][NextSerial]_vars

(***************************************************************************)
(* Callers that are not serialized.  A caller reads the two keys of a gap, *)
(* and later calls between on the keys it read and writes a new block with *)
(* the key it got; another caller may read or write in between.            *)
(***************************************************************************)
\* Blocks a raced group may hold.
RaceGroup == MaxGroup + 2

InitRace ==
    /\ siblings = <<start, end>>
    /\ outcome = None
    /\ IdleIndex
    /\ IdleCodec
    /\ IdleWire
    /\ IdleText
    /\ pair = <<>>
    /\ pairIds = None
    /\ pending = [caller \in Callers |-> None]

\* The caller holds keys it has read and not yet used.
Reading(caller) == pending[caller] # None /\ pending[caller].stage = "read"

\* The caller reads the keys of the neighbours i and j.
ReadGap(caller, i, j) ==
    /\ ~Reading(caller)
    /\ Len(siblings) + Cardinality({cl \in Callers : Reading(cl)}) < RaceGroup
    /\ Adjacent(i, j, 0)
    /\ pending' = [pending EXCEPT ![caller] =
                       [stage |-> "read", before |-> siblings[i],
                        after |-> siblings[j], made |-> None]]
    /\ UNCHANGED <<groupVars, indexVars, codecVars, wireVars, textVars, pairVars>>

\* The keys of the gap read again at the time of writing: the key read as
\* before and the least key now after it.
keysReread(req) ==
    [before |-> req.before,
     after |-> siblings[CHOOSE k \in Blocks :
                  /\ lessThan(req.before, siblings[k])
                  /\ \A m \in Blocks :
                         ~sortsBetween(req.before, siblings[m], siblings[k])]]

\* The keys the caller calls between on: the ones it read.
keysRead(req) == [before |-> req.before, after |-> req.after]

\* The caller calls between and writes the new block.
WriteKey(caller) ==
    /\ Reading(caller)
    /\ outcome' = [op |-> "insert",
                   result |-> between(keysRead(pending[caller]).before,
                                      keysRead(pending[caller]).after)]
    /\ siblings' = IF isRight(outcome'.result)
                   THEN Append(siblings, outcome'.result.right)
                   ELSE siblings
    /\ pending' = [pending EXCEPT ![caller] =
                       [stage |-> "written", before |-> @.before,
                        after |-> @.after, made |-> outcome'.result]]
    /\ UNCHANGED <<indexVars, codecVars, wireVars, textVars, pairVars>>

NextRace ==
    \/ \E caller \in Callers, i \in Blocks, j \in Blocks : ReadGap(caller, i, j)
    \/ \E caller \in Callers : WriteKey(caller)

SpecRace == InitRace /\ [][NextRace]_vars

(***************************************************************************)
(* The pure operations.  The operands a, b, c are valid FractionalIndex    *)
(* values (what new FractionalIndex({index}) accepts); input is any        *)
(* string handed to fromString.                                            *)
(***************************************************************************)
SampleChars == {33, 34, 126}
RawChars == {0, 31, 32, 33, 126, 127, 233}

IndexInputs == StringsOver(SampleChars, MaxIndexLen)
RawInputs == StringsOver(RawChars, MaxRawLen)

InitIndex ==
    /\ IdleGroup
    /\ IdleText
    /\ IdlePair
    /\ IdleCodec
    /\ IdleWire
    /\ result = None
    /\ parsed = None
    /\ indexDecoded = None
    /\ \/ /\ a \in IndexInputs /\ b \in IndexInputs /\ c \in IndexInputs
          /\ input = <<>>
       \/ /\ a = start /\ b = start /\ c = start
          /\ input \in RawInputs

DoBetween ==
    /\ result = None
    /\ result' = [op |-> "between", value |-> between(a, b)]
    /\ UNCHANGED <<pending, pairVars, textVars, groupVars, a, b, c, input, parsed, indexDecoded, codecVars,
                   wireVars>>

DoCompare ==
    /\ result = None
    /\ result' = [op |-> "compare",
                  ab |-> lessThan(a, b), bc |-> lessThan(b, c),
                  ac |-> lessThan(a, c)]
    /\ UNCHANGED <<pending, pairVars, textVars, groupVars, a, b, c, input, parsed, indexDecoded, codecVars,
                   wireVars>>

DoFromString ==
    /\ parsed = None
    /\ parsed' = fromString(input)
    /\ UNCHANGED <<pending, pairVars, textVars, groupVars, a, b, c, result, input, indexDecoded, codecVars,
                   wireVars>>

DoDecodeIndex ==
    /\ indexDecoded = None
    /\ indexDecoded' = decodeFractionalIndex(input)
    /\ UNCHANGED <<pending, pairVars, textVars, groupVars, a, b, c, result, input, parsed, codecVars,
                   wireVars>>

NextIndex == DoBetween \/ DoCompare \/ DoFromString \/ DoDecodeIndex

SpecIndex == InitIndex /\ [][NextIndex]_vars

(***************************************************************************)
(* The codec on its own: encodeBase58 of a value and a width, then         *)
(* decodeBase58 of what it returned.                                       *)
(***************************************************************************)
\* Magnitudes beyond MaxValue: around 58^2 and 58^3, 2^41 - 1, 2^41, the
\* value of the codec test, 58^7 - 1, 2^128 - 1 and 58^22 - 1.
BigMagnitudes ==
    { <<13, 2, 3>>,
      <<13, 2, 4>>,
      <<2, 15, 10, 2, 7>>,
      <<2, 15, 10, 2, 8>>,
      <<1, 15, 15, 15, 15, 15, 15, 15, 15, 15, 15>>,
      <<2, 0, 0, 0, 0, 0, 0, 0, 0, 0, 0>>,
      <<1, 10, 15, 5, 5, 13, 2, 9, 1, 15, 6>>,
      <<2, 0, 2, 1, 6, 1, 12, 10, 10, 7, 15>>,
      <<15, 15, 15, 15, 15, 15, 15, 15, 15, 15, 15, 15, 15, 15, 15, 15, 15, 15, 15, 15, 15, 15, 15, 15, 15, 15, 15, 15, 15, 15, 15, 15>>,
      <<1, 13, 5, 11, 2, 0, 10, 13, 2, 13, 2, 3, 3, 0, 11, 1, 0, 10, 7, 11, 11, 8, 2, 11, 9, 15, 6, 3, 15, 15, 15, 15, 15>> }

CodecValues ==
    {BigInt(n) : n \in (0 - 2)..MaxValue}
        \cup {[neg |-> FALSE, mag |-> m] : m \in BigMagnitudes}

\* The widths: small ones, one below zero, and the two the identifier code
\* passes.
CodecWidths == ((0 - 1)..MaxWidth) \cup {7, 22}

InitCodec ==
    /\ IdleGroup
    /\ IdleText
    /\ IdlePair
    /\ IdleIndex
    /\ IdleWire
    /\ value \in CodecValues
    /\ padWidth \in CodecWidths
    /\ encoded = None
    /\ decoded = None

Encode58 ==
    /\ encoded = None
    /\ encoded' = encodeBase58(value, padWidth)
    /\ UNCHANGED <<pending, pairVars, textVars, groupVars, indexVars, wireVars, value, padWidth, decoded>>

Decode58 ==
    /\ encoded # None /\ isRight(encoded)
    /\ decoded = None
    /\ decoded' = decodeBase58(encoded.right)
    /\ UNCHANGED <<pending, pairVars, textVars, groupVars, indexVars, wireVars, value, padWidth, encoded>>

NextCodec == Encode58 \/ Decode58

SpecCodec == InitCodec /\ [][NextCodec]_vars


(***************************************************************************)
(* The wire form: a UniqueId becomes a NuttyId, is encoded, travels (and   *)
(* may be changed on the way, or come from elsewhere), and is decoded.     *)
(***************************************************************************)
\* UniqueIds: 84 high bits, the digit that holds bit 40, and 40 low bits,
\* each from a few fillings; and the UUID of the identifier tests.
SampleUuidDigits ==
    {[i \in 1..32 |-> IF i <= 21 THEN hi ELSE IF i = 22 THEN mid ELSE lo] :
        hi \in {0, 1, 9, 15}, mid \in {0, 1, 2, 15}, lo \in {0, 7, 15}}
        \cup {<<0, 1, 9, 6, 9, 3, 4, 10, 2, 12, 7, 8, 7, 14, 0, 3, 8, 8, 4, 15, 11, 13, 7, 13, 0, 1, 12, 11, 5, 0, 10, 11>>}

SampleUuids ==
    {joinSlices([i \in 1..32 |-> hexChar(ds[i])]) : ds \in SampleUuidDigits}

\* Characters a ShortCode character is replaced by: five of the alphabet and
\* two outside it.
CorruptChars == {"1", "2", "E", "m", "z", "0", "l"}

\* Left segments that match the pattern and decode to 2^128 or more.
OverflowSegments ==
    {[i \in 1..22 |-> "z"], <<"Z">> \o [i \in 1..21 |-> "1"]}

\* The ShortCode of the low 41 bits of a value.
shortCodeOfValue(v) == encodeBase58(mask41(v), 7).right

\* Wire strings not made by the encoder: an overflowing left segment with
\* the ShortCode of its value, and with the ShortCode of the UUID decode
\* makes of it.
ForeignWires ==
    {seg \o <<":">> \o shortCodeOfValue(decodeBase58(seg).right) :
        seg \in OverflowSegments}
    \cup
    {seg \o <<":">> \o
        shortCodeOfValue(parseHex(removeHyphens(
            uuidFromBigInt(decodeBase58(seg).right)))) :
        seg \in OverflowSegments}

\* What uuidv7() may hand back: version 7, variant 10, with the timestamp
\* and the random bits all zero or all one; and the UUID of the tests.
GeneratedUuids ==
    {joinSlices([i \in 1..32 |->
        hexChar(IF i = 13 THEN 7 ELSE IF i = 17 THEN 8 + (fill % 4) ELSE fill)]) :
        fill \in {0, 15}}
    \cup {joinSlices([i \in 1..32 |-> hexChar(ds[i])]) :
            ds \in {<<0, 1, 9, 6, 9, 3, 4, 10, 2, 12, 7, 8, 7, 14, 0, 3, 8, 8, 4,
                      15, 11, 13, 7, 13, 0, 1, 12, 11, 5, 0, 10, 11>>}}

\* Local time zones of the environments the identifier code runs in.
TimeZones == {"UTC", "Asia/Tokyo"}

\* A UniqueId is given, or none is and now() is to make one.
InitWire ==
    /\ IdleGroup
    /\ IdleText
    /\ IdlePair
    /\ IdleIndex
    /\ IdleCodec
    /\ uuid \in SampleUuids \cup {<<>>}
    /\ nuttyId = None
    /\ wire = <<>>
    /\ wireKind = "none"
    /\ received = None
    /\ timeZone \in TimeZones

Now ==
    /\ uuid = <<>>
    /\ nuttyId = None
    /\ wireKind = "none"
    /\ \E generated \in GeneratedUuids :
           /\ uuid' = generated
           /\ nuttyId' = now(generated)
    /\ UNCHANGED <<pending, pairVars, textVars, groupVars, indexVars, codecVars, wire,
                   wireKind, received, timeZone>>

FromUuid ==
    /\ uuid # <<>>
    /\ nuttyId = None
    /\ wireKind = "none"
    /\ nuttyId' = fromUuid(uuid)
    /\ UNCHANGED <<pending, pairVars, textVars, groupVars, indexVars, codecVars,
                   timeZone, uuid, wire, wireKind, received>>

EncodeWire ==
    /\ nuttyId # None /\ isRight(nuttyId)
    /\ wireKind = "none"
    /\ LET str == encodeNuttyId(nuttyId.right)
       IN  IF isRight(str)
           THEN wire' = str.right /\ wireKind' = "encoded"
           ELSE wire' = wire /\ wireKind' = "failed"
    /\ UNCHANGED <<pending, pairVars, textVars, groupVars, indexVars, codecVars,
                   timeZone, uuid, nuttyId, received>>

\* Character pos of the ShortCode segment is replaced by another one.
Corrupt(pos, char) ==
    /\ wireKind = "encoded"
    /\ received = None
    /\ wire[23 + pos] # char
    /\ wire' = [wire EXCEPT ![23 + pos] = char]
    /\ wireKind' = "corrupted"
    /\ UNCHANGED <<pending, pairVars, textVars, groupVars, indexVars, codecVars,
                   timeZone, uuid, nuttyId, received>>

\* A wire string arrives that no encoder made.
Foreign(str) ==
    /\ nuttyId = None
    /\ wireKind = "none"
    /\ wire' = str
    /\ wireKind' = "foreign"
    /\ UNCHANGED <<pending, pairVars, textVars, groupVars, indexVars, codecVars,
                   timeZone, uuid, nuttyId, received>>

\* The wire string reaches an environment in another time zone.
Travel(zone) ==
    /\ wireKind = "encoded"
    /\ received = None
    /\ zone # timeZone
    /\ timeZone' = zone
    /\ UNCHANGED <<pending, pairVars, textVars, groupVars, indexVars, codecVars,
                   uuid, nuttyId, wire, wireKind, received>>

DecodeWire ==
    /\ wireKind \in {"encoded", "corrupted", "foreign"}
    /\ received = None
    /\ received' = decodeNuttyId(wire)
    /\ UNCHANGED <<pending, pairVars, textVars, groupVars, indexVars, codecVars,
                   timeZone, uuid, nuttyId, wire, wireKind>>

NextWire ==
    \/ Now
    \/ FromUuid
    \/ EncodeWire
    \/ \E pos \in 1..7, char \in CorruptChars : Corrupt(pos, char)
    \/ \E str \in ForeignWires : Foreign(str)
    \/ \E zone \in TimeZones : Travel(zone)
    \/ DecodeWire

SpecWire == InitWire /\ [][NextWire]_vars

(***************************************************************************)
(* Strings from outside: isValidNuttyId and decodeBase58 of a string that  *)
(* no encoder need have made.                                              *)
(***************************************************************************)
\* 0, 1, 57, 58, 58^6 - 1, 58^6, the value of the codec test, 2^41 - 2,
\* 2^41 - 1, 2^41, 2^41 + 1 and 58^7 - 1.
NidMagnitudes ==
    { <<>>, <<1>>, <<3, 9>>, <<3, 10>>,
      <<8, 13, 13, 1, 2, 2, 6, 3, 15>>,
      <<8, 13, 13, 1, 2, 2, 6, 4, 0>>,
      <<1, 10, 15, 5, 5, 13, 2, 9, 1, 15, 6>>,
      <<1, 15, 15, 15, 15, 15, 15, 15, 15, 15, 14>>,
      <<1, 15, 15, 15, 15, 15, 15, 15, 15, 15, 15>>,
      <<2, 0, 0, 0, 0, 0, 0, 0, 0, 0, 0>>,
      <<2, 0, 0, 0, 0, 0, 0, 0, 0, 0, 1>>,
      <<2, 0, 2, 1, 6, 1, 12, 10, 10, 7, 15>> }

\* Seven characters of the alphabet, in and out of the 41-bit range.
NidStrings ==
    {encodeBase58([neg |-> FALSE, mag |-> m], 7).right : m \in NidMagnitudes}

\* Characters outside the alphabet.
ForeignChars == {"0", "l", "~"}

\* Strings of other lengths, and strings with one or two foreign characters.
OddStrings ==
    { <<>>, <<"1">>, <<"z">>, <<"1", "2">>, <<"1", "1", "z", "z">>,
      <<"1", "1", "1", "1", "1", "1">>,
      <<"z", "m", "M", "9", "z", "4">>,
      <<"1", "1", "1", "1", "1", "1", "1", "1">>,
      <<"z", "m", "M", "9", "z", "4", "E", "1">> }
    \cup {[str EXCEPT ![pos] = ch] :
            str \in {<<"1", "1", "1", "1", "1", "1", "1">>, MAX_NID},
            pos \in {1, 4, 7}, ch \in ForeignChars}
    \cup {<<"0">>, <<"0", "l">>, <<"l", "0">>, <<"1", "~", "0", "2">>}

TextInputs == NidStrings \cup OddStrings

InitText ==
    /\ IdleGroup
    /\ IdlePair
    /\ IdleIndex
    /\ IdleCodec
    /\ IdleWire
    /\ text \in TextInputs
    /\ textOther \in NidStrings
    /\ verdict = None
    /\ textValue = None

CheckNid ==
    /\ verdict = None
    /\ verdict' = [tag |-> "Verdict", valid |-> isValidNuttyId(text)]
    /\ UNCHANGED <<pending, pairVars, groupVars, indexVars, codecVars, wireVars, text,
                   textOther,
                   textValue>>

DecodeText ==
    /\ textValue = None
    /\ textValue' = decodeBase58(text)
    /\ UNCHANGED <<pending, pairVars, groupVars, indexVars, codecVars, wireVars, text,
                   textOther,
                   verdict>>

NextText == CheckNid \/ DecodeText

SpecText == InitText /\ [][NextText]_vars

\* Both directions of the codec, each on its own inputs.
InitCodecText == InitCodec \/ InitText

NextCodecText == NextCodec \/ NextText

SpecCodecText == InitCodecText /\ [][NextCodecText]_vars

(***************************************************************************)
(* Two UniqueIds, each made into a NuttyId.                                *)
(***************************************************************************)
\* The sampled UniqueIds, and two that differ from the all-zero one in bit
\* 0 and in bit 39 alone.
PairUuids ==
    SampleUuids \cup
    {joinSlices([i \in 1..32 |-> hexChar(IF i = pos THEN d ELSE 0)]) :
        pos \in {23, 32}, d \in {1, 8}}

InitPair ==
    /\ IdleGroup
    /\ IdleIndex
    /\ IdleCodec
    /\ IdleWire
    /\ IdleText
    /\ pair \in PairUuids \X PairUuids
    /\ pending = <<>>
    /\ pairIds = None

DerivePair ==
    /\ pairIds = None
    /\ pairIds' = <<fromUuid(pair[1]), fromUuid(pair[2])>>
    /\ UNCHANGED <<pending, groupVars, indexVars, codecVars, wireVars, textVars,
                   pair>>

NextPair == DerivePair

SpecPair == InitPair /\ [][NextPair]_vars

(***************************************************************************)
(* Claims.                                                                 *)
(***************************************************************************)
DidBetween == result # None /\ result.op = "between"
DidCompare == result # None /\ result.op = "compare"
NonEmptyPair == a # <<>> /\ b # <<>>

\* C1: for all valid a, b with a.lessThan(b), between(a, b) is a success
\* whose key m satisfies a.lessThan(m) and m.lessThan(b).
C1_BetweenIsBetween ==
    (DidBetween /\ NonEmptyPair /\ lessThan(a, b)) =>
        /\ isRight(result.value)
        /\ lessThan(a, result.value.right)
        /\ lessThan(result.value.right, b)

\* C2: in a group grown from start() and end() by insertions, between of any
\* two adjacent siblings is a success, never a failure.
C2_DenseInsertion ==
    \A i \in Blocks, j \in Blocks :
        Adjacent(i, j, 0) => isRight(between(siblings[i], siblings[j]))

\* C3: in a group that starts as start(), end() and changes only by a
\* successful between(l, r) of two adjacent siblings, the keys stay pairwise
\* non-equal under compare, the new key sorts strictly between l and r, and
\* no other sibling's key changes.
C3_Distinct ==
    \A i \in Blocks, j \in Blocks : i # j => ~equals(siblings[i], siblings[j])

C3_Step ==
    isRight(outcome'.result) =>
        /\ outcome'.op = "insert" =>
               \A i \in Blocks, j \in Blocks :
                   Insert(i, j) =>
                       /\ Len(siblings') = Len(siblings) + 1
                       /\ sortsBetween(siblings[i], siblings'[Len(siblings')],
                                       siblings[j])
                       /\ \A k \in Blocks : siblings'[k] = siblings[k]
        /\ outcome'.op = "move" =>
               \A blk \in Blocks :
                   (Len(siblings') >= blk
                       /\ siblings'[blk] = outcome'.result.right) =>
                       \A i \in Blocks, j \in Blocks :
                           Move(blk, i, j) =>
                               /\ Len(siblings') = Len(siblings)
                               /\ sortsBetween(siblings[i], siblings'[blk],
                                               siblings[j])
                               /\ \A k \in Blocks \ {blk} :
                                      siblings'[k] = siblings[k]

C3_SiblingOrder == []C3_Distinct /\ [][C3_Step]_vars

C3_Witness ==
    /\ outcome # None /\ outcome.op = "move" /\ isRight(outcome.result)
    /\ Len(siblings) = MaxGroup
    /\ \E k \in Blocks : siblings[k] = outcome.result.right

\* C4: between(before, after) is the degenerate-interval failure whenever
\* before.equals(after), and a successful between never hands back a key
\* that equals either argument.
C4_RejectsEqual ==
    (DidBetween /\ NonEmptyPair) =>
        /\ equals(a, b) =>
               /\ isLeft(result.value)
               /\ result.value.left.msg = "Identical indices"
        /\ isRight(result.value) =>
               /\ ~equals(result.value.right, a)
               /\ ~equals(result.value.right, b)

\* C8: lessThan is transitive on valid indices of any lengths.
C8_Transitive ==
    DidCompare => ((result.ab /\ result.bc) => result.ac)

C8_Witness ==
    /\ DidCompare /\ result.ab /\ result.bc /\ result.ac
    /\ Len(a) # Len(b) /\ Len(b) # Len(c)

\* C9: start(), end() and every key between hands back as a success consist
\* only of characters with code points in 33..126.  A chain of between calls
\* feeds each call valid keys, so one call on every pair of valid keys covers it.
InRange(s) == \A i \in 1..Len(s) : s[i] \in 33..126

C9_CharRange ==
    /\ InRange(start) /\ InRange(end)
    /\ InRange(a) /\ InRange(b)
    /\ (DidBetween /\ isRight(result.value)) => InRange(result.value.right)

C9_Witness ==
    /\ DidBetween /\ isRight(result.value)
    /\ Len(result.value.right) > Len(a) /\ Len(result.value.right) > Len(b)

\* C10: fromString(s) succeeds iff every character of s has a code point in
\* 33..126, and otherwise is a failure naming the leftmost invalid character.
FirstInvalidAt(s, i) ==
    /\ s[i] \notin 33..126
    /\ \A k \in 1..(i - 1) : s[k] \in 33..126

C10_FromString ==
    parsed # None =>
        /\ isRight(parsed) <=> InRange(input)
        /\ isRight(parsed) => parsed.right = input
        /\ isLeft(parsed) =>
               /\ parsed.left.msg = "Invalid character"
               /\ \E i \in 1..Len(input) :
                      FirstInvalidAt(input, i) /\ parsed.left.char = input[i]

C10_Witness ==
    /\ parsed # None /\ isLeft(parsed)
    /\ \E i \in 1..Len(input), j \in 1..Len(input) :
           i < j /\ input[i] \notin 33..126 /\ input[j] \notin 33..126
                 /\ input[i] # input[j]

\* C5: for every integer v >= 0 and every width w not smaller than the
\* natural base-58 digit count of v (1 for v = 0), encodeBase58(v, w) succeeds
\* and decodeBase58 of its result succeeds with exactly v.
RECURSIVE NaturalDigits(_)
NaturalDigits(mag) ==
    LET q == divMod(mag, 58).quot
    IN  IF q = <<>> THEN 1 ELSE 1 + NaturalDigits(q)

C5_RoundTrip ==
    (~value.neg /\ padWidth >= NaturalDigits(value.mag)) =>
        /\ encoded # None => isRight(encoded)
        /\ decoded # None => (isRight(decoded) /\ decoded.right = value)

C5_Witness ==
    /\ decoded # None /\ isRight(decoded) /\ decoded.right = value
    /\ NaturalDigits(value.mag) >= 2
    /\ padWidth > NaturalDigits(value.mag)

\* C6: for every 128-bit UniqueId u, encoding the NuttyId derived from u to
\* its wire string and decoding that string succeeds with a NuttyId whose
\* UniqueId is exactly u and whose ShortCode is the one derived from u.
C6_WireRoundTrip ==
    /\ nuttyId # None => isRight(nuttyId)
    /\ wireKind # "failed"
    /\ (wireKind = "encoded" /\ received # None) =>
           /\ isRight(received)
           /\ received.right.uuid = uuid
           /\ received.right.nid = nuttyId.right.nid

C6_Witness ==
    /\ wireKind = "encoded" /\ received # None /\ isRight(received)
    /\ received.right.uuid = uuid
    /\ uuid[1] = "0" /\ uuid[36] = "b"

\* C7: decoding a wire string succeeds only if its ShortCode segment is the
\* ShortCode of the low 41 bits of the value its left segment decodes to; so
\* a wire string with one ShortCode character replaced is rejected, and every
\* decoded NuttyId has nid = ShortCode(uuid).
C7_ChecksumIntegrity ==
    /\ (received # None /\ isRight(received)) =>
           /\ split(wire, ":")[2] =
                  shortCodeOfValue(decodeBase58(split(wire, ":")[1]).right)
           /\ received.right.nid =
                  shortCodeOfValue(parseHex(removeHyphens(received.right.uuid)))
    /\ (received # None /\ wireKind = "corrupted") => isLeft(received)

\* C11: fromString and the FractionalIndexFromString decoder accept only
\* non-empty strings: the empty string is rejected, and no FractionalIndex
\* either of them hands back has length 0.
C11_NeverEmpty ==
    /\ (parsed # None /\ input = <<>>) => isLeft(parsed)
    /\ (indexDecoded # None /\ input = <<>>) => isLeft(indexDecoded)
    /\ (parsed # None /\ isRight(parsed)) => Len(parsed.right) > 0
    /\ (indexDecoded # None /\ isRight(indexDecoded)) =>
           Len(indexDecoded.right) > 0

\* C12: isValidNuttyId accepts s iff s has exactly 7 characters, all of the
\* base-58 alphabet, and decodeBase58(s) <= 2^41 - 1: "zmM9z4E" is
\* encodeBase58(2^41 - 1, 7), and on 7-character base-58 strings the order of
\* the strings is the order of their values.
InAlphabet(str) ==
    \A i \in 1..Len(str) : \E k \in 1..58 : BASE_58_ALPHABET[k] = str[i]

\* m1 < m2 on magnitudes.
MagLess(m1, m2) ==
    \/ Len(m1) < Len(m2)
    \/ Len(m1) = Len(m2) /\ StrLess(m1, m2)

Max41 == <<1, 15, 15, 15, 15, 15, 15, 15, 15, 15, 15>>

C12_NidValidity ==
    /\ MAX_NID = encodeBase58([neg |-> FALSE, mag |-> Max41], 7).right
    /\ verdict # None =>
           /\ verdict.valid <=>
                  /\ Len(text) = 7
                  /\ InAlphabet(text)
                  /\ ~MagLess(Max41, decodeBase58(text).right.mag)
           /\ (Len(text) = 7 /\ InAlphabet(text)) =>
                  (StrLess(codeUnits(text), codeUnits(textOther)) <=>
                      MagLess(decodeBase58(text).right.mag,
                              decodeBase58(textOther).right.mag))

C12_Witness ==
    /\ verdict # None /\ verdict.valid /\ text = MAX_NID
    /\ MagLess(decodeBase58(text).right.mag, decodeBase58(textOther).right.mag)

\* C13: the ShortCode is a function of the low 41 bits of the UniqueId alone:
\* two UniqueIds that agree on their low 41 bits get the same ShortCode
\* whatever their other 87 bits, and two that differ there get different ones.
Low41(id) ==
    LET hex == SelectSeq(id, LAMBDA ch : ch # "-")
    IN  <<hexValue(hex[22]) % 2>> \o [i \in 1..10 |-> hexValue(hex[22 + i])]

High87(id) ==
    LET hex == SelectSeq(id, LAMBDA ch : ch # "-")
    IN  [i \in 1..21 |-> hexValue(hex[i])] \o <<hexValue(hex[22]) \div 2>>

C13_ShortCodeOfLow41 ==
    pairIds # None =>
        /\ isRight(pairIds[1]) /\ isRight(pairIds[2])
        /\ (Low41(pair[1]) = Low41(pair[2])) <=>
               (pairIds[1].right.nid = pairIds[2].right.nid)

C13_Witness ==
    /\ pairIds # None /\ isRight(pairIds[1]) /\ isRight(pairIds[2])
    /\ Low41(pair[1]) = Low41(pair[2])
    /\ High87(pair[1]) # High87(pair[2])
    /\ pairIds[1].right.nid = pairIds[2].right.nid

\* C14: for every 128-bit UniqueId the wire string made by encoding its
\* NuttyId matches ^[1-9A-HJ-NP-Za-km-z]{22}:[1-9A-HJ-NP-Za-km-z]{7}$: the
\* left segment has exactly 22 base-58 characters, never more since
\* 2^128 <= 58^22, and the right segment is the 7-character ShortCode.
MatchesWirePattern(str) ==
    /\ Len(str) = 30
    /\ str[23] = ":"
    /\ InAlphabet(SubSeq(str, 1, 22))
    /\ InAlphabet(SubSeq(str, 24, 30))

AllOnes128 == [neg |-> FALSE, mag |-> [i \in 1..32 |-> 15]]

C14_WirePattern ==
    /\ Len(encodeBase58(AllOnes128, 0).right) = 22
    /\ wireKind # "failed"
    /\ wireKind = "encoded" =>
           /\ MatchesWirePattern(wire)
           /\ SubSeq(wire, 24, 30) = nuttyId.right.nid
           /\ decodeBase58(SubSeq(wire, 1, 22)) =
                  Right(parseHex(SelectSeq(uuid, LAMBDA ch : ch # "-")))

C14_Witness ==
    /\ wireKind = "encoded"
    /\ MatchesWirePattern(wire)
    /\ uuid[1] = "f" /\ uuid[36] = "f"
    /\ wire[1] # "1"

\* C15: for v >= 0, encodeBase58(v, minWidth) is the big-endian base-58
\* digits of v over the alphabet (digit 0 is "1"), left-padded with "1" to
\* minWidth and never truncated: its length is the larger of minWidth and the
\* digit count of v, and v = 0 gives exactly minWidth "1" characters;
\* encode(0, 1) = "1" and encode(1852570767862, 1) = "qfWLRgy".
DigitCount(mag) == IF mag = <<>> THEN 0 ELSE NaturalDigits(mag)

\* The number a string of alphabet characters writes in base 58.
RECURSIVE ValueOf(_)
ValueOf(str) ==
    IF str = <<>> THEN <<>>
    ELSE mulAdd(ValueOf(SubSeq(str, 1, Len(str) - 1)), 58,
                (CHOOSE k \in 1..58 : BASE_58_ALPHABET[k] = str[Len(str)]) - 1)

TestValue == [neg |-> FALSE, mag |-> <<1, 10, 15, 5, 5, 13, 2, 9, 1, 15, 6>>]

C15_EncodeShape ==
    /\ encodeBase58(BigInt(0), 1) = Right(<<"1">>)
    /\ encodeBase58(TestValue, 1) = Right(<<"q", "f", "W", "L", "R", "g", "y">>)
    /\ (encoded # None /\ ~value.neg /\ padWidth >= 0) =>
           /\ isRight(encoded)
           /\ InAlphabet(encoded.right)
           /\ Len(encoded.right) = Max(padWidth, DigitCount(value.mag))
           /\ stripZeros(ValueOf(encoded.right)) = value.mag
           /\ value.mag = <<>> => encoded.right = [i \in 1..padWidth |-> "1"]

C15_Witness ==
    /\ encoded # None /\ isRight(encoded) /\ ~value.neg
    /\ padWidth > 0 /\ padWidth < DigitCount(value.mag)
    /\ Len(encoded.right) = DigitCount(value.mag)

\* C16: encodeBase58 returns a failure value exactly when value < 0;
\* decodeBase58 returns a failure value exactly when its input is empty or
\* holds a character outside the base-58 alphabet, and then the failure names
\* the first such character; on every other input both succeed.  The width
\* is a count, 0 or more.
FirstForeignAt(str, i) ==
    /\ ~InAlphabet(<<str[i]>>)
    /\ InAlphabet(SubSeq(str, 1, i - 1))

C17_DerivationTotal ==
    nuttyId # None =>
        /\ isRight(nuttyId)
        /\ nuttyId.right.uuid = uuid
        /\ Len(nuttyId.right.nid) = 7
        /\ InAlphabet(nuttyId.right.nid)
        /\ ~MagLess(Max41, stripZeros(ValueOf(nuttyId.right.nid)))
        /\ stripZeros(ValueOf(nuttyId.right.nid)) = stripZeros(Low41(uuid))
        /\ isValidNuttyId(nuttyId.right.nid)

C17_Witness ==
    /\ nuttyId # None /\ isRight(nuttyId)
    /\ nuttyId.right.nid = MAX_NID
    /\ uuid[15] = "7"

\* C18: no operation signals failure by throwing: for any integer and width
\* encodeBase58, for any string decodeBase58, fromString and the wire
\* decoders, and for any two valid indices between, hand back a success or a
\* typed failure value.
Returned(r) == r = None \/ r.tag \in {"Right", "Left"}

C18_NeverThrows ==
    /\ Returned(encoded) /\ Returned(decoded) /\ Returned(textValue)
    /\ Returned(parsed) /\ Returned(indexDecoded) /\ Returned(received)
    /\ DidBetween => Returned(result.value)

\* C19: when the reorder operations on one sibling group are serialized, each
\* reading its two neighbour keys, calling between and writing the block's
\* key in one step, then under every interleaving of the callers the keys
\* stay pairwise distinct under compare, and each written key lies strictly
\* between the neighbours that were current when it was written.
C19_Distinct ==
    \A i \in DOMAIN siblings, j \in DOMAIN siblings :
        i < j => compare(siblings[i], siblings[j]) # 0

C19_Step ==
    \A caller \in Callers :
        (pending[caller] # None /\ pending'[caller] = None
            /\ isRight(outcome'.result)) =>
            LET req == pending[caller]
                written == IF req.blk = 0 THEN Len(siblings') ELSE req.blk
            IN  /\ Len(siblings') = Len(siblings) + (IF req.blk = 0 THEN 1 ELSE 0)
                /\ siblings'[written] = outcome'.result.right
                /\ \A k \in Blocks \ {written} : siblings'[k] = siblings[k]
                /\ \E k \in Blocks \ {req.blk, req.after} :
                       /\ Adjacent(req.after, k, req.blk)
                       /\ sortsBetween(siblings[req.after], siblings'[written],
                                       siblings[k])

RECURSIVE Pow94(_)
Pow94(n) == IF n = 0 THEN 1 ELSE 94 * Pow94(n - 1)

\* value(key) * 94^scale, for scale >= Len(key).
RECURSIVE ScaledValue(_, _)
ScaledValue(key, scale) ==
    IF key = <<>> THEN 0
    ELSE ScaledValue(SubSeq(key, 1, Len(key) - 1), scale)
             + (key[Len(key)] - 33) * Pow94(scale - Len(key))

Sign(n) == IF n < 0 THEN 0 - 1 ELSE IF n > 0 THEN 1 ELSE 0

C20_CompareIsValueOrder ==
    DidCompare =>
        LET scale == Max(Len(a), Len(b))
            va == ScaledValue(a, scale)
            vb == ScaledValue(b, scale)
        IN  /\ compare(a, b) = Sign(va - vb)
            /\ result.ab <=> va < vb
            /\ equals(a, b) <=> va = vb
            /\ greaterThan(a, b) <=> va > vb
            /\ Cardinality({k \in 1..3 :
                   \/ k = 1 /\ lessThan(a, b)
                   \/ k = 2 /\ equals(a, b)
                   \/ k = 3 /\ greaterThan(a, b)}) = 1

C20_Witness ==
    /\ DidCompare
    /\ Len(a) >= 1 /\ Len(b) > Len(a)
    /\ compare(a, b) = 0
    /\ compare(b, c) = 1

\* C21: for all valid a and b that are not identical, the key between(a, b)
\* returns has, as a base-94 fraction, the value (value(a) + value(b)) / 2,
\* and every digit the floor-half-with-carry loop makes (the extra digit for
\* a final carry included) lies in 0..93.
C21_ExactMidpoint ==
    (DidBetween /\ a # b) =>
        LET made == betweenString(a, b)
            scale == Max(Len(a), Len(b)) + 1
        IN  /\ \A i \in 1..Len(made) : made[i] - 33 \in 0..93
            /\ isRight(result.value)
            /\ result.value.right = made
            /\ 2 * ScaledValue(made, scale) =
                   ScaledValue(a, scale) + ScaledValue(b, scale)

\* C22: the timestamp of a NuttyId made by fromUuid or by wire decode is the
\* instant whose epoch milliseconds are the unsigned integer in the leading
\* 48 bits of the UniqueId; the UniqueId, the ShortCode and that instant are
\* the same under every local time zone.
Leading48(id) ==
    LET hex == SelectSeq(id, LAMBDA ch : ch # "-")
    IN  stripZeros([i \in 1..12 |-> hexValue(hex[i])])

C22_TimestampInstant ==
    /\ (nuttyId # None /\ isRight(nuttyId)) =>
           nuttyId.right.timestamp.epochMilliseconds = Leading48(uuid)
    /\ (received # None /\ isRight(received)) =>
           received.right.timestamp.epochMilliseconds =
               Leading48(received.right.uuid)
    /\ (wireKind = "encoded" /\ received # None /\ isRight(received)) =>
           /\ received.right.uuid = nuttyId.right.uuid
           /\ received.right.nid = nuttyId.right.nid
           /\ received.right.timestamp.epochMilliseconds =
                  nuttyId.right.timestamp.epochMilliseconds

C22_Witness ==
    /\ wireKind = "encoded" /\ received # None /\ isRight(received)
    /\ received.right.timestamp.timeZoneId # nuttyId.right.timestamp.timeZoneId
    /\ Len(received.right.timestamp.epochMilliseconds) = 11

\* C23: key length has no cap.  In the group built from start(), end() by
\* inserting each time between start() and the most recently created key,
\* every insertion succeeds and its key is one character longer than the
\* last, so the key after n insertions is longer than n; an insertion leaves
\* every existing key as it was, makes no key shorter than either neighbour,
\* and fails only over a character outside [33, 126], never over length.
Newest == siblings[Len(siblings)]

NarrowChain ==
    \A n \in 3..Len(siblings) :
        siblings[n] = betweenString(start, siblings[n - 1])

C23_Grows ==
    NarrowChain =>
        /\ Len(Newest) = Len(siblings) - 1
        /\ isRight(between(start, Newest))
        /\ Len(between(start, Newest).right) = Len(Newest) + 1

C23_Step ==
    \A i \in Blocks, j \in Blocks :
        Insert(i, j) =>
            LET made == betweenString(siblings[i], siblings[j])
            IN  /\ \A k \in Blocks : siblings'[k] = siblings[k]
                /\ isRight(outcome'.result) =>
                       /\ Len(siblings') = Len(siblings) + 1
                       /\ siblings'[Len(siblings')] = made
                       /\ Len(made) >= Len(siblings[i])
                       /\ Len(made) >= Len(siblings[j])
                /\ isLeft(outcome'.result) =>
                       /\ siblings' = siblings
                       /\ \E p \in 1..Len(made) :
                              made[p] \notin MIN_CHAR..MAX_CHAR

C23_NoLengthCap == []C23_Grows /\ [][C23_Step]_vars

C23_Witness ==
    /\ NarrowChain
    /\ Len(siblings) = MaxSiblings
    /\ Len(Newest) = MaxSiblings - 1
    /\ outcome # None /\ isRight(outcome.result)
    /\ outcome.result.right = Newest

\* C24: every string isValidNuttyId accepts is the ShortCode fromUuid gives
\* to some UniqueId, and to more than one: the UniqueId whose value is the
\* string's own and the one that differs from it in its topmost bits alone
\* both get exactly that ShortCode.
UuidOfValue(v, top) ==
    LET hex == [i \in 1..(32 - Len(v.mag)) |-> "0"] \o
               [i \in 1..Len(v.mag) |-> hexChar(v.mag[i])]
    IN  joinSlices([hex EXCEPT ![1] = top])

C24_OntoNotOneToOne ==
    (verdict # None /\ verdict.valid) =>
        LET v == decodeBase58(text).right
            lowId == UuidOfValue(v, "0")
            highId == UuidOfValue(v, "f")
        IN  /\ isUUID(lowId) /\ isUUID(highId)
            /\ lowId # highId
            /\ isRight(fromUuid(lowId)) /\ isRight(fromUuid(highId))
            /\ fromUuid(lowId).right.nid = text
            /\ fromUuid(highId).right.nid = text

C24_Witness ==
    /\ verdict # None /\ verdict.valid
    /\ text[1] = "z" /\ text # MAX_NID
    /\ fromUuid(UuidOfValue(decodeBase58(text).right, "f")).right.nid = text

\* C25: for every wire string s that decoding accepts, the value of the
\* 22-character left segment is below 2^128 and encoding the decoded NuttyId
\* gives back exactly s.
Pow128 == <<1>> \o [i \in 1..32 |-> 0]

C25_DecodeInverse ==
    (received # None /\ isRight(received)) =>
        /\ MagLess(decodeBase58(split(wire, ":")[1]).right.mag, Pow128)
        /\ encodeNuttyId(received.right) = Right(wire)

\* C26: when two callers have read the same two adjacent keys and each has
\* called between on what it read and written, both calls returned the same
\* outcome, and on success the group holds two blocks with that one key,
\* equal under compare.
Wrote(caller) == pending[caller] # None /\ pending[caller].stage = "written"

SameGap(c1, c2) ==
    /\ c1 # c2
    /\ Wrote(c1) /\ Wrote(c2)
    /\ pending[c1].before = pending[c2].before
    /\ pending[c1].after = pending[c2].after

C27_Symmetric ==
    DidBetween =>
        /\ isRight(result.value) <=> isRight(between(b, a))
        /\ isLeft(result.value) <=> isLeft(between(b, a))
        /\ isRight(result.value) => result.value.right = between(b, a).right
        /\ betweenString(a, b) = betweenString(b, a)

C27_Witness ==
    /\ DidBetween /\ isRight(result.value)
    /\ Len(a) = 1 /\ Len(b) = 2 /\ lessThan(b, a)
    /\ result.value.right = between(b, a).right
    /\ Len(result.value.right) = 3

\* C28: for all valid non-identical a and b, a key between(a, b) returns has
\* length L or L + 1, L the greater of the two lengths, and it has L + 1
\* exactly when the digit sum at position L, incoming carry included, is odd.
DigitAt(key, i) == IF i <= Len(key) THEN key[i] - 33 ELSE 0

RECURSIVE SumAt(_, _, _)
SumAt(k1, k2, i) ==
    DigitAt(k1, i) + DigitAt(k2, i)
        + (IF i = 1 THEN 0 ELSE 94 * (SumAt(k1, k2, i - 1) % 2))

C28_OneMoreAtMost ==
    (DidBetween /\ a # b /\ isRight(result.value)) =>
        LET L == Max(Len(a), Len(b))
            made == result.value.right
        IN  /\ Len(made) \in {L, L + 1}
            /\ Len(made) = L + 1 <=> SumAt(a, b, L) % 2 = 1

C28_Witness ==
    /\ DidBetween /\ isRight(result.value)
    /\ Len(a) = 2 /\ Len(b) = 2
    /\ Len(result.value.right) = 3
    /\ SumAt(a, b, 2) > 94

\* C29: no valid key is lessThan start(), and a between of start() and a key
\* that equals start() yields no key lessThan start(); end() is not greatest:
\* "~~" is greaterThan end().
C29_StartLeast ==
    /\ (DidCompare /\ b = start) =>
           /\ ~result.ab
           /\ compare(a, start) >= 0
           /\ compare(start, a) <= 0
    /\ (DidCompare /\ a = end /\ c = <<126, 126>>) =>
           /\ result.ac
           /\ greaterThan(c, end)
    /\ (DidBetween /\ b = start /\ equals(a, start)) =>
           /\ isRight(result.value) => ~lessThan(result.value.right, start)
           /\ isRight(between(b, a)) => ~lessThan(between(b, a).right, start)

C29_Witness ==
    /\ DidCompare
    /\ a = end /\ b = start /\ c = <<126, 126>>
    /\ result.ac /\ ~result.ab
    /\ isRight(between(<<33, 33>>, start))

\* C30: for every non-empty string s over the base-58 alphabet,
\* decodeBase58("1" + s) is decodeBase58(s), and encodeBase58 of that value
\* with the width length(s) is s again.
C30_LeadingOnes ==
    (textValue # None /\ Len(text) > 0 /\ InAlphabet(text)) =>
        /\ isRight(textValue)
        /\ decodeBase58(<<"1">> \o text) = textValue
        /\ encodeBase58(textValue.right, Len(text)) = Right(text)

C30_Witness ==
    /\ textValue # None /\ isRight(textValue)
    /\ Len(text) = 4 /\ text[1] = "1" /\ text[4] = "z"
    /\ Len(encodeBase58(textValue.right, 0).right) = 2
    /\ encodeBase58(textValue.right, 4) = Right(text)

====
